---------------------------- MODULE Spec2Model ----------------------------
(***************************************************************************)
(* A model of jira-wrapped: the JiraHandler of jira_handler.py (field map, *)
(* paginated issue pull, lazy epic-name cache, reporter) and the           *)
(* word-wrapping FileLoggerFormatter of logging_utils.py.                  *)
(*                                                                         *)
(* Python values are modelled as follows.                                  *)
(*   str        a sequence of one-character strings where the characters   *)
(*              matter (the formatter), a TLA+ string otherwise            *)
(*   dict       a sequence of [k, v] records with pairwise distinct keys,  *)
(*              in insertion order (Python dicts iterate in that order)    *)
(*   Optional   <<>> for None and <<x>> for the value x                     *)
(*   object with optional attributes (issue.fields)                        *)
(*              a function whose DOMAIN is the set of attributes present   *)
(***************************************************************************)
EXTENDS Integers, Sequences, FiniteSets, TLC

(***************************************************************************)
(* Bounds of the model.                                                    *)
(***************************************************************************)
MaxMsgLen == 5
MaxLineLength == 4
MaxFields == 3          \* fields the tracker lists, when every list is tried
MaxSmallIssues == 2     \* issues of a result set, when every result set is tried
MaxLinkedIssues == 3    \* issues with an epic link of a result set, when every linking is tried
MaxPages == 2           \* full pages of the large result sets
MaxSearchCalls == 4     \* search_issues calls the model follows one run for
MaxOrderIssues == 2     \* issues in front of the old one, when every field order is tried
MaxEpicCalls == 3       \* direct get_epic_name calls the model follows

(***************************************************************************)
(* ---------------------------- logging_utils.py ------------------------- *)
(***************************************************************************)
Chars == {"a", "b", " ", "\n"}
Whitespace == {" ", "\n"}

RECURSIVE StringsUpTo(_)
StringsUpTo(n) ==
    IF n = 0 THEN {<<>>}
    ELSE LET shorter == StringsUpTo(n - 1)
         IN  shorter \cup {Append(s, c) : s \in {t \in shorter : Len(t) = n - 1}, c \in Chars}

\* str.split() with no argument: the maximal runs of non-whitespace characters.
RECURSIVE SplitAcc(_, _, _, _)
SplitAcc(s, i, cur, acc) ==
    IF i > Len(s)
    THEN IF cur = <<>> THEN acc ELSE Append(acc, cur)
    ELSE IF s[i] \in Whitespace
         THEN SplitAcc(s, i + 1, <<>>, IF cur = <<>> THEN acc ELSE Append(acc, cur))
         ELSE SplitAcc(s, i + 1, Append(cur, s[i]), acc)

Split(s) == SplitAcc(s, 1, <<>>, <<>>)

\* sep.join(parts)
RECURSIVE Join(_, _)
Join(parts, sep) ==
    IF parts = <<>> THEN <<>>
    ELSE IF Len(parts) = 1 THEN parts[1]
    ELSE parts[1] \o sep \o Join(Tail(parts), sep)

\* s.strip("\n"): leading and trailing newline characters removed.
RECURSIVE StripLeft(_)
StripLeft(s) ==
    IF s # <<>> /\ s[1] = "\n" THEN StripLeft(Tail(s)) ELSE s

RECURSIVE StripRight(_)
StripRight(s) ==
    IF s # <<>> /\ s[Len(s)] = "\n" THEN StripRight(SubSeq(s, 1, Len(s) - 1)) ELSE s

StripNewlines(s) == StripRight(StripLeft(s))

\* The test of line 22, with the off-by-one a wrapper typically gets wrong.
WouldOverflow_NoSpace(current_line, word, L) ==
    Len(current_line) + Len(word) > L

\* len(current_line) + len(word) + 1 > cfg.FILE_LOG_LINE_LENGTH
WouldOverflow(current_line, word, L) ==
    Len(current_line) + Len(word) + 1 > L

\* The for loop of format: <<lines, current_line>> after the words from i on.
RECURSIVE WrapWords(_, _, _, _, _)
WrapWords(words, i, lines, current_line, L) ==
    IF i > Len(words) THEN <<lines, current_line>>
    ELSE LET word == words[i]
         IN  IF WouldOverflow(current_line, word, L)
             THEN WrapWords(words, i + 1, Append(lines, current_line), word, L)
             ELSE IF current_line = <<>>
                  THEN WrapWords(words, i + 1, lines, word, L)
                  ELSE WrapWords(words, i + 1, lines, current_line \o <<" ">> \o word, L)

\* FileLoggerFormatter.format on a record whose formatted message is msg.
Format(msg, L) ==
    LET words   == Split(msg)
        wrapped == WrapWords(words, 1, <<>>, <<>>, L)
        lines   == IF wrapped[2] # <<>> THEN Append(wrapped[1], wrapped[2]) ELSE wrapped[1]
    IN  StripNewlines(Join(lines, <<"\n">>))

\* The lines a handler writes for a formatted message: the pieces between
\* newline characters; an empty message has no line.
RECURSIVE LinesAcc(_, _, _, _)
LinesAcc(s, i, cur, acc) ==
    IF i > Len(s) THEN Append(acc, cur)
    ELSE IF s[i] = "\n"
         THEN LinesAcc(s, i + 1, <<>>, Append(acc, cur))
         ELSE LinesAcc(s, i + 1, Append(cur, s[i]), acc)

EmittedLines(s) == IF s = <<>> THEN <<>> ELSE LinesAcc(s, 1, <<>>, <<>>)

RECURSIVE Concat(_)
Concat(seqs) == IF seqs = <<>> THEN <<>> ELSE seqs[1] \o Concat(Tail(seqs))

(***************************************************************************)
(* ------------------------------ Python dicts --------------------------- *)
(***************************************************************************)
\* An attribute that is None or holds a value: <<>> or <<value>>.
None == <<>>
Some(x) == <<x>>

\* None as the value of an issue field.
NoneValue == "<None>"

\* No exception; an exception is [type, key, cause].
NoError == [type |-> "", key |-> "", cause |-> ""]

\* not value
Falsy(value) == value = NoneValue \/ value = ""

\* A call of a logger (or of print): which message, with which arguments.
Log(what, args) == [what |-> what, args |-> args]

DictKeys(d) == {d[i].k : i \in 1..Len(d)}

DictHas(d, key) == \E i \in 1..Len(d) : d[i].k = key

DictGet(d, key) == d[CHOOSE i \in 1..Len(d) : d[i].k = key].v

DictValues(d) == [i \in 1..Len(d) |-> d[i].v]

\* d[key] = value: an existing key keeps its place, a new key goes last.
DictSet(d, key, value) ==
    IF DictHas(d, key)
    THEN [i \in 1..Len(d) |-> IF d[i].k = key THEN [k |-> key, v |-> value] ELSE d[i]]
    ELSE Append(d, [k |-> key, v |-> value])

SeqToSet(s) == {s[i] : i \in 1..Len(s)}

RECURSIVE SeqsUpTo(_, _)
SeqsUpTo(S, n) ==
    IF n = 0 THEN {<<>>}
    ELSE LET shorter == SeqsUpTo(S, n - 1)
         IN  shorter \cup {Append(s, x) : s \in {t \in shorter : Len(t) = n - 1}, x \in S}

(***************************************************************************)
(* ------------------------------ variables ------------------------------ *)
(***************************************************************************)
VARIABLES
    \* logging_utils.py
    FILE_LOG_LINE_LENGTH,   \* cfg.FILE_LOG_LINE_LENGTH
    record_msg,             \* the message of the log record handed to format
    wrapped_msg,            \* what format returned
    fmt_pc,                 \* "ready" before format ran, "formatted" after
    \* the environment and config.py
    JIRA_TOKEN,             \* os.environ.get("JIRA_TOKEN"), NoneValue when unset
    handler_module,         \* the file JiraHandler is taken from: "jira_handler" or "main"
    IMPORTANT_CUSTOM_FIELDS,
    LIST_CUSTOM_FIELDS,
    VERBOSE,
    \* the tracker behind jira_client
    connect_log,            \* the options of every JIRA(**options) call, in order
    jira_fields,            \* what jira_client.fields() lists
    jira_issues,            \* the result set of the JQL query, in the order it is served
    jira_epics,             \* what jira_client.issue answers per epic key, where that is
                            \* fixed for the run; <<>> where every call can get any answer
    search_log,             \* the startAt of every search_issues call, in order
    fetch_log,              \* [key, ok] of every jira_client.issue call, in order
    \* JiraHandler attributes
    jira_client,
    anchor_date,
    custom_fields,
    custom_field_map,
    self_issue_map,         \* self.issue_map
    existing_epic_map,
    \* locals of generate_issue_map
    past_anchor,
    start_index,
    issues,                 \* the page search_issues returned
    issue_pos,              \* position of the for loop in the page
    issue_map,
    \* control
    pc,                     \* where execute (or the caller of get_epic_name) stands
    raised,                 \* the exception that left the last call, or NoError
    epic_calls,             \* [ref, raised, value, fetched] of every get_epic_name call, in order
    logged                  \* what the loggers were given, in order

fmtVars == <<FILE_LOG_LINE_LENGTH, record_msg, wrapped_msg, fmt_pc>>
cfgVars == <<JIRA_TOKEN, handler_module, IMPORTANT_CUSTOM_FIELDS, LIST_CUSTOM_FIELDS, VERBOSE>>
clientVars == <<connect_log, jira_client>>
jiraVars == <<jira_fields, jira_issues, jira_epics, search_log, fetch_log>>
selfVars == <<anchor_date, custom_fields, custom_field_map, self_issue_map, existing_epic_map>>
loopVars == <<past_anchor, start_index, issues, issue_pos, issue_map>>
ctlVars == <<pc, raised, epic_calls, logged>>

vars == <<fmtVars, cfgVars, clientVars, jiraVars, selfVars, loopVars, ctlVars>>

(***************************************************************************)
(* ------------------------- JiraHandler.__init__ ------------------------ *)
(***************************************************************************)
Today == 20
WRAPPED_TIMELINE == 5

\* The options _get_jira_client hands to JIRA(**options)
JiraOptions(token) == [server |-> "https://jira.aledade.com", token_auth |-> token]

\* The environment holds a token and the client is connected with it.
Connected ==
    /\ JIRA_TOKEN = "token"
    /\ connect_log = <<JiraOptions(JIRA_TOKEN)>>
    /\ jira_client = Some(JiraOptions(JIRA_TOKEN))

\* The attributes and locals as __init__ leaves them, before execute.
Constructed ==
    /\ anchor_date = Today - WRAPPED_TIMELINE
    /\ custom_fields = None
    /\ custom_field_map = None
    /\ self_issue_map = None
    /\ existing_epic_map = <<>>
    /\ past_anchor = FALSE
    /\ start_index = 0
    /\ issues = <<>>
    /\ issue_pos = 0
    /\ issue_map = <<>>
    /\ search_log = <<>>
    /\ fetch_log = <<>>
    /\ raised = NoError
    /\ epic_calls = <<>>
    /\ logged = <<>>

\* No log record is being formatted.
FormatterIdle ==
    /\ FILE_LOG_LINE_LENGTH = 120
    /\ record_msg = <<>>
    /\ wrapped_msg = <<>>
    /\ fmt_pc = "idle"

InitFormat ==
    /\ FILE_LOG_LINE_LENGTH \in 0..MaxLineLength
    /\ record_msg \in StringsUpTo(MaxMsgLen)
    /\ wrapped_msg = <<>>
    /\ fmt_pc = "ready"
    /\ Connected
    /\ handler_module = "jira_handler"
    /\ IMPORTANT_CUSTOM_FIELDS = <<>>
    /\ LIST_CUSTOM_FIELDS = FALSE
    /\ VERBOSE = TRUE
    /\ jira_fields = <<>>
    /\ jira_epics = <<>>
    /\ jira_issues = <<>>
    /\ pc = "idle"
    /\ Constructed

FormatRecord ==
    /\ fmt_pc = "ready"
    /\ wrapped_msg' = Format(record_msg, FILE_LOG_LINE_LENGTH)
    /\ fmt_pc' = "formatted"
    /\ UNCHANGED <<FILE_LOG_LINE_LENGTH, record_msg>>
    /\ UNCHANGED <<cfgVars, clientVars, jiraVars, selfVars, loopVars, ctlVars>>

NextFormat == FormatRecord

SpecFormat == InitFormat /\ [][NextFormat]_vars

(***************************************************************************)
(* ------------------------------ the tracker ---------------------------- *)
(***************************************************************************)
EpicLink == "Epic Link"
EpicName == "Epic Name"
StoryPoints == "Story Points"
DevDays == "Dev Days"

\* cfg.IMPORTANT_CUSTOM_FIELDS as config.py ships it
DefaultTracked == <<EpicLink, EpicName, StoryPoints, DevDays>>

EpicKeys == {"EPIC-1", "EPIC-2"}
JiraErrors == {"HTTP 404", "HTTP 503"}
Absent == "<absent>"

\* A field list: the tracker gives every field its own id.
MkFields(spec) == [i \in 1..Len(spec) |-> [id |-> i, name |-> spec[i][1], custom |-> spec[i][2]]]

FieldIds(fields, name) == {fields[i].id : i \in {j \in 1..Len(fields) : fields[j].name = name}}

\* An issue of the result set: its Epic Link field holds link unless link is
\* Absent, its Story Points field is filled on the odd keys only, and no
\* other custom field is set on it.
MkIssue(key, day, link, fields) ==
    LET linkIds   == IF link = Absent THEN {} ELSE FieldIds(fields, EpicLink)
        pointsIds == IF key % 2 = 1 THEN FieldIds(fields, StoryPoints) ELSE {}
    IN  [key |-> key,
         fields |-> [summary |-> "title", description |-> "text",
                     resolutiondate |-> <<day, 9>>,
                     custom |-> [id \in linkIds \cup pointsIds |->
                                    IF id \in linkIds THEN link ELSE "3"]]]

\* What jira_client.issue(key) can answer: a JIRAError, or the epic with or
\* without a value in its Epic Name field.
FetchResponses(fields) ==
    {[ok |-> FALSE, error |-> e, custom |-> <<>>] : e \in JiraErrors}
    \cup {[ok |-> TRUE, error |-> "", custom |-> <<>>]}
    \cup {[ok |-> TRUE, error |-> "", custom |-> [id \in FieldIds(fields, EpicName) |-> "Alpha"]]}

\* datetime.fromisoformat(resolutiondate).date(): the day of a <<day, hour>> stamp
DateOf(stamp) == stamp[1]

\* hasattr(obj, id)
HasAttr(custom, id) == id \in DOMAIN custom

\* search_issues(jql, maxResults, startAt): the slice of the result set
SearchIssuesPage(results, startAt, maxResults) ==
    SubSeq(results, startAt + 1,
           IF startAt + maxResults < Len(results) THEN startAt + maxResults ELSE Len(results))

(***************************************************************************)
(* ------------------- __init__ and _get_jira_client --------------------- *)
(***************************************************************************)
\* The test of line 41 letting an empty token through.
TokenMissing_OnlyUnset(token) == token = NoneValue

\* not jira_bearer_token
TokenMissing(token) == Falsy(token)

\* No handler exists yet.
Unconstructed ==
    /\ connect_log = <<>>
    /\ jira_client = None
    /\ anchor_date = None
    /\ custom_fields = None
    /\ custom_field_map = None
    /\ self_issue_map = None
    /\ existing_epic_map = <<>>
    /\ past_anchor = FALSE
    /\ start_index = 0
    /\ issues = <<>>
    /\ issue_pos = 0
    /\ issue_map = <<>>
    /\ search_log = <<>>
    /\ fetch_log = <<>>
    /\ raised = NoError
    /\ epic_calls = <<>>
    /\ logged = <<>>

\* JiraHandler(): lines 19-35, with _get_jira_client of lines 37-49 first.
\* JIRA(**options) connects to the server and can fail there.
NewJiraHandler ==
    /\ pc = "new"
    /\ IF TokenMissing(JIRA_TOKEN)
       THEN /\ logged' = Append(logged, Log("error_no_token", <<>>))
            /\ raised' = [type |-> "ValueError", key |-> "", cause |-> "JIRA_TOKEN not set"]
            /\ pc' = "aborted"
            /\ UNCHANGED <<clientVars, selfVars>>
       ELSE /\ connect_log' = Append(connect_log, JiraOptions(JIRA_TOKEN))
            /\ \/ /\ jira_client' = Some(JiraOptions(JIRA_TOKEN))
                  /\ anchor_date' = Today - WRAPPED_TIMELINE
                  /\ custom_fields' = None
                  /\ custom_field_map' = None
                  /\ self_issue_map' = None
                  /\ existing_epic_map' = <<>>
                  /\ pc' = "fields"
                  /\ UNCHANGED raised
               \/ \E e \in JiraErrors :
                  /\ raised' = [type |-> "JIRAError", key |-> "", cause |-> e]
                  /\ pc' = "aborted"
                  /\ UNCHANGED <<jira_client, selfVars>>
            /\ UNCHANGED logged
    /\ UNCHANGED <<fmtVars, cfgVars, jiraVars, loopVars, epic_calls>>

(***************************************************************************)
(* -------------------- get_custom_fields_available ---------------------- *)
(***************************************************************************)
IsCustom(field) == field.custom

\* [field for field in fields if field["custom"]]
CustomFieldsOf(fields) == SelectSeq(fields, IsCustom)

GetCustomFieldsAvailable ==
    /\ pc = "fields"
    /\ \/ /\ custom_fields' = Some(CustomFieldsOf(jira_fields))
          /\ logged' = Append(logged, Log("debug_custom_fields", <<Len(CustomFieldsOf(jira_fields))>>))
          /\ pc' = "field_map"
          /\ UNCHANGED raised
       \/ \E e \in JiraErrors :
          /\ logged' = Append(logged, Log("error_fetch_fields", <<>>))
          /\ raised' = [type |-> "JIRAError", key |-> "", cause |-> e]
          /\ pc' = "aborted"
          /\ UNCHANGED custom_fields
    /\ UNCHANGED <<fmtVars, cfgVars, clientVars, jiraVars, loopVars, epic_calls>>
    /\ UNCHANGED <<anchor_date, custom_field_map, self_issue_map, existing_epic_map>>

(***************************************************************************)
(* -------------------------- get_custom_field_map ----------------------- *)
(***************************************************************************)
\* The for loop of lines 75-80: the map after the fields from i on.
RECURSIVE FieldMapLoop(_, _, _, _, _)
FieldMapLoop(fields, i, map, tracked, listing) ==
    IF i > Len(fields) THEN map
    ELSE IF listing
         THEN FieldMapLoop(fields, i + 1, map, tracked, listing)
         ELSE IF fields[i].name \in SeqToSet(tracked)
              THEN FieldMapLoop(fields, i + 1, DictSet(map, fields[i].name, fields[i].id),
                                tracked, listing)
              ELSE FieldMapLoop(fields, i + 1, map, tracked, listing)

\* The logger.info lines of line 77
ListedFields(fields, listing) ==
    IF listing
    THEN [i \in 1..Len(fields) |-> Log("custom_field", <<fields[i].id, fields[i].name>>)]
    ELSE <<>>

\* The test of line 82 gone wrong: only an empty map is refused.
ShortCount_OnlyEmpty(map, tracked) == Len(map) = 0 /\ Len(tracked) # 0

\* len(custom_field_map) != len(cfg.IMPORTANT_CUSTOM_FIELDS)
ShortCount(map, tracked) == Len(map) # Len(tracked)

GetCustomFieldMap ==
    /\ pc = "field_map"
    /\ LET map == FieldMapLoop(custom_fields[1], 1, <<>>, IMPORTANT_CUSTOM_FIELDS,
                               LIST_CUSTOM_FIELDS)
       IN  /\ logged' = logged \o ListedFields(custom_fields[1], LIST_CUSTOM_FIELDS)
           /\ IF ShortCount(map, IMPORTANT_CUSTOM_FIELDS)
              THEN /\ raised' = [type |-> "ValueError", key |-> "", cause |-> "custom fields not found"]
                   /\ pc' = "aborted"
                   /\ UNCHANGED custom_field_map
              ELSE /\ custom_field_map' = Some(map)
                   /\ pc' = "while"
                   /\ UNCHANGED raised
    /\ UNCHANGED <<fmtVars, cfgVars, clientVars, jiraVars, loopVars, epic_calls>>
    /\ UNCHANGED <<anchor_date, custom_fields, self_issue_map, existing_epic_map>>

(***************************************************************************)
(* ------------------------------ get_epic_name -------------------------- *)
(***************************************************************************)
\* A get_epic_name call: the exception it raised (or NoError), the value it
\* returned, the epic cache after it, the jira_client.issue calls it made.
Outcome(exc, value, cache, fetched) ==
    [raised |-> exc, value |-> value, cache |-> cache, fetched |-> fetched]

Fetched(key, resp) == [key |-> key, ok |-> resp.ok, error |-> resp.error]

\* The test of line 177 without the literal "None".
IsNoEpic_OnlyFalsy(epic_link_value) == Falsy(epic_link_value)

\* not epic_link_value or epic_link_value == "None"
IsNoEpic(epic_link_value) == Falsy(epic_link_value) \/ epic_link_value = "None"

\* The test of line 179 gone: every call fetches.
CacheMiss_Always(cache, epic_link_value) == TRUE

\* epic_link_value not in self.existing_epic_map
CacheMiss(cache, epic_link_value) == ~DictHas(cache, epic_link_value)

\* The except branch throwing the cache away before it raises.
FetchFailed_Clears(cache, epic_link_value, resp) ==
    Outcome([type |-> "ValueError", key |-> epic_link_value, cause |-> resp.error], "",
            <<>>, <<Fetched(epic_link_value, resp)>>)

\* The except branch storing a placeholder before it raises.
FetchFailed_Caches(cache, epic_link_value, resp) ==
    Outcome([type |-> "ValueError", key |-> epic_link_value, cause |-> resp.error], "",
            DictSet(cache, epic_link_value, "N/A"), <<Fetched(epic_link_value, resp)>>)

\* except JIRAError as e: log, raise ValueError(error_msg)
FetchFailed(cache, epic_link_value, resp) ==
    Outcome([type |-> "ValueError", key |-> epic_link_value, cause |-> resp.error], "",
            cache, <<Fetched(epic_link_value, resp)>>)

\* get_epic_name(epic_link_value), resp being what jira_client.issue answers
\* if it is asked.
GetEpicName(field_map, cache, epic_link_value, resp) ==
    IF ~DictHas(field_map, EpicName)
    THEN Outcome([type |-> "NotImplementedError", key |-> "", cause |-> ""], "", cache, <<>>)
    ELSE IF IsNoEpic(epic_link_value)
    THEN Outcome(NoError, "N/A", cache, <<>>)
    ELSE IF CacheMiss(cache, epic_link_value)
    THEN IF ~resp.ok
         THEN FetchFailed(cache, epic_link_value, resp)
         ELSE LET epic_custom_field_id == DictGet(field_map, EpicName)
                  stored == DictSet(cache, epic_link_value,
                                    IF HasAttr(resp.custom, epic_custom_field_id)
                                    THEN resp.custom[epic_custom_field_id]
                                    ELSE "N/A")
              IN  Outcome(NoError, DictGet(stored, epic_link_value), stored,
                          <<Fetched(epic_link_value, resp)>>)
    ELSE Outcome(NoError, DictGet(cache, epic_link_value), cache, <<>>)

\* get_epic_name of main.py, lines 168-193: the except branch prints and
\* falls through to the return of line 193, whose lookup raises KeyError.
GetEpicNameMain(field_map, cache, epic_link_value, resp) ==
    IF ~DictHas(field_map, EpicName)
    THEN Outcome([type |-> "NotImplementedError", key |-> "", cause |-> ""], "", cache, <<>>)
    ELSE IF IsNoEpic(epic_link_value)
    THEN Outcome(NoError, "N/A", cache, <<>>)
    ELSE IF CacheMiss(cache, epic_link_value)
    THEN IF ~resp.ok
         THEN Outcome([type |-> "KeyError", key |-> epic_link_value, cause |-> ""], "",
                      cache, <<Fetched(epic_link_value, resp)>>)
         ELSE LET epic_custom_field_id == DictGet(field_map, EpicName)
                  stored == DictSet(cache, epic_link_value,
                                    IF HasAttr(resp.custom, epic_custom_field_id)
                                    THEN resp.custom[epic_custom_field_id]
                                    ELSE "N/A")
              IN  Outcome(NoError, DictGet(stored, epic_link_value), stored,
                          <<Fetched(epic_link_value, resp)>>)
    ELSE Outcome(NoError, DictGet(cache, epic_link_value), cache, <<>>)

\* What the except branch hands to logger.error (line 190; print in main.py,
\* line 191) for the fetches that failed.
RECURSIVE FetchErrorsLogged(_)
FetchErrorsLogged(fetched) ==
    IF fetched = <<>> THEN <<>>
    ELSE (IF fetched[1].ok THEN <<>>
          ELSE <<Log("error_fetch_epic", <<fetched[1].key, fetched[1].error>>)>>)
         \o FetchErrorsLogged(Tail(fetched))

Call(ref, out) ==
    [ref |-> ref, raised |-> out.raised, value |-> out.value, fetched |-> out.fetched # <<>>]

(***************************************************************************)
(* ---------------------------- generate_issue_map ----------------------- *)
(***************************************************************************)
max_issues_pulled_at_a_time == 50

\* The default of line 126 written like the one of line 133.
EpicLinkValue_DefaultNA(issue, epic_link_custom_field_id) ==
    IF HasAttr(issue.fields.custom, epic_link_custom_field_id)
    THEN issue.fields.custom[epic_link_custom_field_id]
    ELSE "N/A"

\* getattr(issue.fields, id) if hasattr(issue.fields, id) else "None"
EpicLinkValue(issue, epic_link_custom_field_id) ==
    IF HasAttr(issue.fields.custom, epic_link_custom_field_id)
    THEN issue.fields.custom[epic_link_custom_field_id]
    ELSE "None"

\* The default of line 133 left out: getattr with None as its default.
FieldValue_DefaultNone(issue, custom_field_id) ==
    IF HasAttr(issue.fields.custom, custom_field_id)
    THEN issue.fields.custom[custom_field_id]
    ELSE NoneValue

\* getattr(issue.fields, id) if hasattr(issue.fields, id) else "N/A"
FieldValue(issue, custom_field_id) ==
    IF HasAttr(issue.fields.custom, custom_field_id)
    THEN issue.fields.custom[custom_field_id]
    ELSE "N/A"

\* The for loop of lines 120-135 over the items of the field map from i on.
\* st is [raised, record, cache, fetched, calls]; the loop ends at the first
\* exception.
RECURSIVE CustomFieldLoop(_, _, _, _, _)
CustomFieldLoop(issue, field_map, i, st, resp) ==
    IF i > Len(field_map) THEN st
    ELSE LET custom_field_name == field_map[i].k
             custom_field_id   == field_map[i].v
         IN  IF custom_field_name = EpicName
             THEN IF ~DictHas(field_map, EpicLink)
                  THEN [st EXCEPT !.raised = [type |-> "KeyError", key |-> EpicLink, cause |-> ""]]
                  ELSE LET epic_link_custom_field_id == DictGet(field_map, EpicLink)
                           epic_link_value == EpicLinkValue(issue, epic_link_custom_field_id)
                           out == IF handler_module = "main"
                                  THEN GetEpicNameMain(field_map, st.cache, epic_link_value, resp)
                                  ELSE GetEpicName(field_map, st.cache, epic_link_value, resp)
                           st2 == [st EXCEPT !.raised = out.raised,
                                             !.cache = out.cache,
                                             !.fetched = @ \o out.fetched,
                                             !.calls = Append(@, Call(epic_link_value, out))]
                       IN  IF out.raised # NoError THEN st2
                           ELSE CustomFieldLoop(issue, field_map, i + 1,
                                    [st2 EXCEPT !.record = DictSet(@, custom_field_name, out.value)],
                                    resp)
             ELSE CustomFieldLoop(issue, field_map, i + 1,
                      [st EXCEPT !.record =
                          DictSet(@, custom_field_name, FieldValue(issue, custom_field_id))],
                      resp)

\* The comparison of line 109 with the anchor date itself shut out.
BeforeAnchor_Inclusive(issue_resolution_date, anchor) == issue_resolution_date <= anchor

\* issue_resolution_date < self.anchor_date
BeforeAnchor(issue_resolution_date, anchor) == issue_resolution_date < anchor

\* The while test of line 98 gone: the loop asks for page after page.
LoopAgain_Always(past) == TRUE

\* while not past_anchor
LoopAgain(past) == ~past

\* The search_issues call wrapped in a handler that goes round the loop again.
SearchRaised_Retried(e) ==
    [pc |-> "while", raised |-> [type |-> "JIRAError", key |-> "", cause |-> e]]

\* search_issues raises: nothing in generate_issue_map or execute catches it.
SearchRaised(e) ==
    [pc |-> "aborted", raised |-> [type |-> "JIRAError", key |-> "", cause |-> e]]

\* The while test and the search_issues call of lines 98-105.
SearchIssues ==
    /\ pc = "while"
    /\ LoopAgain(past_anchor)
    /\ Len(search_log) < MaxSearchCalls
    /\ search_log' = Append(search_log, start_index)
    /\ \/ /\ issues' = SearchIssuesPage(jira_issues, start_index, max_issues_pulled_at_a_time)
          /\ issue_pos' = 1
          /\ pc' = "for"
          /\ UNCHANGED raised
       \/ \E e \in JiraErrors :
          /\ raised' = SearchRaised(e).raised
          /\ pc' = SearchRaised(e).pc
          /\ UNCHANGED <<issues, issue_pos>>
    /\ UNCHANGED <<fmtVars, cfgVars, clientVars, selfVars, epic_calls, logged>>
    /\ UNCHANGED <<jira_fields, jira_issues, jira_epics, fetch_log, past_anchor, start_index, issue_map>>

\* One pass of the for loop of lines 107-135.
ProcessIssue ==
    /\ pc = "for"
    /\ ~past_anchor
    /\ issue_pos <= Len(issues)
    /\ LET issue == issues[issue_pos]
           issue_resolution_date == DateOf(issue.fields.resolutiondate)
           fixed == <<[k |-> "Title", v |-> issue.fields.summary],
                      [k |-> "Description", v |-> issue.fields.description],
                      [k |-> "Resolution Date", v |-> issue_resolution_date]>>
       IN  IF BeforeAnchor(issue_resolution_date, anchor_date)
           THEN /\ past_anchor' = TRUE
                /\ UNCHANGED <<issue_pos, issue_map, existing_epic_map, fetch_log,
                               epic_calls, raised, pc, logged>>
           ELSE \E resp \in FetchResponses(jira_fields) :
                LET st == CustomFieldLoop(issue, custom_field_map[1], 1,
                              [raised |-> NoError, record |-> fixed,
                               cache |-> existing_epic_map, fetched |-> <<>>, calls |-> <<>>],
                              resp)
                IN  /\ issue_map' = DictSet(issue_map, issue.key, st.record)
                    /\ existing_epic_map' = st.cache
                    /\ fetch_log' = fetch_log \o st.fetched
                    /\ logged' = logged \o FetchErrorsLogged(st.fetched)
                    /\ epic_calls' = epic_calls \o st.calls
                    /\ raised' = st.raised
                    /\ IF st.raised # NoError
                       THEN pc' = "aborted" /\ UNCHANGED issue_pos
                       ELSE pc' = "for" /\ issue_pos' = issue_pos + 1
                    /\ UNCHANGED past_anchor
    /\ UNCHANGED <<fmtVars, cfgVars, clientVars>>
    /\ UNCHANGED <<jira_fields, jira_issues, jira_epics, search_log, start_index, issues>>
    /\ UNCHANGED <<anchor_date, custom_fields, custom_field_map, self_issue_map>>

\* Line 136 left out: the same page is asked for again.
NextStart_Same(start, page_size) == start

\* start_index += max_issues_pulled_at_a_time
NextStart(start, page_size) == start + page_size

\* The for loop is over (page exhausted, or break): line 136.
EndOfPage ==
    /\ pc = "for"
    /\ past_anchor \/ issue_pos > Len(issues)
    /\ start_index' = NextStart(start_index, max_issues_pulled_at_a_time)
    /\ pc' = "while"
    /\ UNCHANGED <<fmtVars, cfgVars, clientVars, jiraVars, selfVars, epic_calls, logged, raised>>
    /\ UNCHANGED <<past_anchor, issues, issue_pos, issue_map>>

\* The while loop is left: line 137 and the assignment of line 206.
ReturnIssueMap ==
    /\ pc = "while"
    /\ ~LoopAgain(past_anchor)
    /\ self_issue_map' = Some(issue_map)
    /\ pc' = "report"
    /\ UNCHANGED <<fmtVars, cfgVars, clientVars, jiraVars, loopVars, epic_calls, logged, raised>>
    /\ UNCHANGED <<anchor_date, custom_fields, custom_field_map, existing_epic_map>>

(***************************************************************************)
(* --------------------------- print_issue_summary ----------------------- *)
(***************************************************************************)
\* The comprehension over the distinct names instead of the cached epics.
RECURSIVE DistinctValues(_, _, _)
DistinctValues(values, i, acc) ==
    IF i > Len(values) THEN acc
    ELSE DistinctValues(values, i + 1,
             IF values[i] \in SeqToSet(acc) THEN acc ELSE Append(acc, values[i]))

EpicValues_DistinctNames(epic_map) ==
    LET names == DistinctValues(DictValues(epic_map), 1, <<>>)
    IN  [idx \in 1..Len(names) |-> <<idx, names[idx]>>]

\* The epic_values comprehension of lines 152-156: <<idx + 1, epic_name>>
EpicValues(epic_map) ==
    [idx \in 1..Len(epic_map) |-> <<idx, DictValues(epic_map)[idx]>>]

\* The block of lines 144-149 for one item of the issue map
IssueDetail(item) ==
    <<Log("issue_key", <<item.k>>)>>
    \o Concat([i \in 1..Len(item.v) |->
                  <<Log("rule", <<"-">>), Log("field", <<item.v[i].k, item.v[i].v>>)>>])
    \o <<Log("rule", <<"=">>), Log("blank", <<>>)>>

PrintIssueSummary ==
    /\ pc = "report"
    /\ logged' = logged
          \o (IF VERBOSE
              THEN Concat([i \in 1..Len(self_issue_map[1]) |-> IssueDetail(self_issue_map[1][i])])
              ELSE <<>>)
          \o <<Log("epics_participated_in", <<Len(EpicValues(existing_epic_map))>>),
               Log("epic_list", EpicValues(existing_epic_map)),
               Log("issues_completed", <<Cardinality(DictKeys(self_issue_map[1]))>>)>>
          \o (IF VERBOSE THEN <<Log("details_file", <<>>)>> ELSE <<>>)
          \o <<Log("thats_a_wrap", <<>>)>>
    /\ pc' = "done"
    /\ UNCHANGED <<fmtVars, cfgVars, clientVars, jiraVars, selfVars, loopVars, epic_calls, raised>>

(***************************************************************************)
(* -------------------------------- execute ------------------------------ *)
(***************************************************************************)
\* The fields of a tracker that has every field config.py tracks, a built-in
\* field and a custom field nobody tracks.
DefaultFields ==
    MkFields(<< <<EpicLink, TRUE>>, <<"Summary", FALSE>>, <<EpicName, TRUE>>,
                <<StoryPoints, TRUE>>, <<DevDays, TRUE>>, <<"Sprint", TRUE>> >>)

\* Resolution days around the anchor date, and what an Epic Link can hold.
IssueDays == {Today, Today - WRAPPED_TIMELINE, Today - WRAPPED_TIMELINE - 1}
IssueLinks == {Absent, "None"} \cup EpicKeys

\* Every result set of at most n issues, sorted or not.
SmallResults(n, fields) ==
    {[i \in 1..Len(s) |-> MkIssue(i, s[i][1], s[i][2], fields)] :
        s \in SeqsUpTo(IssueDays \X IssueLinks, n)}

\* The sorted result sets of at most n issues resolved today, with any epic
\* links, followed by one issue resolved before the anchor date.
LinkedResults(n, fields) ==
    {[i \in 1..(Len(s) + 1) |->
         IF i <= Len(s) THEN MkIssue(i, Today, s[i], fields)
         ELSE MkIssue(i, Today - WRAPPED_TIMELINE - 1, Absent, fields)] :
        s \in SeqsUpTo(IssueLinks, n)}

\* Three issues resolved today, yesterday and ten days ago.
ScenarioResults(fields) ==
    {<<MkIssue(1, Today, "EPIC-1", fields), MkIssue(2, Today - 1, "EPIC-1", fields),
       MkIssue(3, Today - 10, "EPIC-2", fields)>>}

\* The sizes and cut points at the page borders.
PageBorders == {p * max_issues_pulled_at_a_time + d : p \in 1..MaxPages, d \in {-1, 0, 1}}

\* The sorted result set of n issues of which the first `kept` are resolved
\* on or after the anchor date, the last of them on it, and the rest before
\* it; every issue belongs to the same epic.
SortedResults(n, kept, fields) ==
    [i \in 1..n |->
        MkIssue(i,
                IF i < kept THEN Today
                ELSE IF i = kept THEN Today - WRAPPED_TIMELINE
                ELSE Today - WRAPPED_TIMELINE - 1,
                "EPIC-1",
                fields)]

LargeResults(fields) ==
    UNION {{SortedResults(n, kept, fields) : kept \in {b \in PageBorders \cup {1} : b <= n}} :
           n \in PageBorders}

Init ==
    /\ FormatterIdle
    /\ Connected
    /\ handler_module = "jira_handler"
    /\ IMPORTANT_CUSTOM_FIELDS = DefaultTracked
    /\ LIST_CUSTOM_FIELDS = FALSE
    /\ jira_fields = DefaultFields
    /\ jira_epics = <<>>
    /\ \/ /\ VERBOSE \in BOOLEAN
          /\ jira_issues \in SmallResults(MaxSmallIssues, DefaultFields)
                              \cup LinkedResults(MaxLinkedIssues, DefaultFields)
                              \cup ScenarioResults(DefaultFields)
       \/ /\ VERBOSE = FALSE
          /\ jira_issues \in LargeResults(DefaultFields)
    /\ pc = "fields"
    /\ Constructed

Next ==
    \/ GetCustomFieldsAvailable
    \/ GetCustomFieldMap
    \/ SearchIssues
    \/ ProcessIssue
    \/ EndOfPage
    \/ ReturnIssueMap
    \/ PrintIssueSummary

\* One run of execute against a tracker holding any of the result sets.
Spec == Init /\ [][Next]_vars

\* What the environment can hold as JIRA_TOKEN.
Tokens == {NoneValue, "", "token"}

InitNew ==
    /\ FormatterIdle
    /\ JIRA_TOKEN \in Tokens
    /\ handler_module = "jira_handler"
    /\ IMPORTANT_CUSTOM_FIELDS = DefaultTracked
    /\ LIST_CUSTOM_FIELDS = FALSE
    /\ VERBOSE \in BOOLEAN
    /\ jira_fields = DefaultFields
    /\ jira_epics = <<>>
    /\ jira_issues \in LinkedResults(MaxLinkedIssues, DefaultFields)
    /\ pc = "new"
    /\ Unconstructed

NextNew ==
    \/ NewJiraHandler
    \/ Next

\* JiraHandler().execute() under any environment.
SpecNew == InitNew /\ [][NextNew]_vars

\* The tracked-field lists tried against every field list.
TrackedLists ==
    {<<EpicLink, EpicName>>, <<EpicName, EpicLink>>, <<EpicLink, EpicName, StoryPoints>>,
     <<StoryPoints>>, <<EpicName>>, <<>>}

FieldLists(n) ==
    {MkFields(s) : s \in SeqsUpTo({EpicLink, EpicName, StoryPoints, "Sprint"} \X BOOLEAN, n)}

InitFields ==
    /\ FormatterIdle
    /\ Connected
    /\ handler_module = "jira_handler"
    /\ IMPORTANT_CUSTOM_FIELDS \in TrackedLists
    /\ LIST_CUSTOM_FIELDS \in BOOLEAN
    /\ VERBOSE = TRUE
    /\ jira_fields \in FieldLists(MaxFields)
    /\ jira_epics = <<>>
    /\ jira_issues = <<MkIssue(1, Today, "EPIC-1", jira_fields),
                       MkIssue(2, Today - WRAPPED_TIMELINE - 1, "EPIC-2", jira_fields)>>
    /\ pc = "fields"
    /\ Constructed

\* One run of execute under any configuration against any field list.
SpecFields == InitFields /\ [][Next]_vars

\* main.py's handler with its field map built, at the start of
\* generate_issue_map, its anchor date five days back.
InitMain ==
    /\ FormatterIdle
    /\ Connected
    /\ handler_module = "main"
    /\ IMPORTANT_CUSTOM_FIELDS = DefaultTracked
    /\ LIST_CUSTOM_FIELDS = FALSE
    /\ VERBOSE = FALSE
    /\ jira_fields = DefaultFields
    /\ jira_epics = <<>>
    /\ jira_issues \in SmallResults(MaxSmallIssues, DefaultFields)
                        \cup LinkedResults(MaxLinkedIssues, DefaultFields)
    /\ pc = "while"
    /\ anchor_date = Today - WRAPPED_TIMELINE
    /\ custom_fields = Some(CustomFieldsOf(jira_fields))
    /\ custom_field_map = Some(FieldMapLoop(CustomFieldsOf(jira_fields), 1, <<>>,
                                            IMPORTANT_CUSTOM_FIELDS, FALSE))
    /\ self_issue_map = None
    /\ existing_epic_map = <<>>
    /\ past_anchor = FALSE /\ start_index = 0 /\ issues = <<>> /\ issue_pos = 0
    /\ issue_map = <<>>
    /\ search_log = <<>> /\ fetch_log = <<>>
    /\ raised = NoError /\ epic_calls = <<>> /\ logged = <<>>

NextMain ==
    \/ SearchIssues
    \/ ProcessIssue
    \/ EndOfPage
    \/ ReturnIssueMap

\* One run of main.py's generate_issue_map.
SpecMain == InitMain /\ [][NextMain]_vars

\* What get_epic_name can be handed.
EpicRefs == {NoneValue, "", "None"} \cup EpicKeys

\* A handler whose field map is built, before any issue is pulled.
InitEpic ==
    /\ FormatterIdle
    /\ Connected
    /\ handler_module = "jira_handler"
    /\ IMPORTANT_CUSTOM_FIELDS \in {DefaultTracked, <<StoryPoints>>}
    /\ LIST_CUSTOM_FIELDS = FALSE
    /\ VERBOSE = TRUE
    /\ jira_fields = DefaultFields
    /\ jira_epics = <<>>
    /\ jira_issues = <<>>
    /\ pc = "caller"
    /\ anchor_date = Today - WRAPPED_TIMELINE
    /\ custom_fields = Some(CustomFieldsOf(jira_fields))
    /\ custom_field_map = Some(FieldMapLoop(CustomFieldsOf(jira_fields), 1, <<>>,
                                            IMPORTANT_CUSTOM_FIELDS, FALSE))
    /\ self_issue_map = None
    /\ existing_epic_map = <<>>
    /\ past_anchor = FALSE /\ start_index = 0 /\ issues = <<>> /\ issue_pos = 0
    /\ issue_map = <<>>
    /\ search_log = <<>> /\ fetch_log = <<>>
    /\ raised = NoError /\ epic_calls = <<>> /\ logged = <<>>

\* A caller invokes get_epic_name and catches what it raises.
CallGetEpicName ==
    /\ pc = "caller"
    /\ Len(epic_calls) < MaxEpicCalls
    /\ \E ref \in EpicRefs, resp \in FetchResponses(jira_fields) :
          LET out == GetEpicName(custom_field_map[1], existing_epic_map, ref, resp)
          IN  /\ existing_epic_map' = out.cache
              /\ fetch_log' = fetch_log \o out.fetched
              /\ logged' = logged \o FetchErrorsLogged(out.fetched)
              /\ epic_calls' = Append(epic_calls, Call(ref, out))
              /\ raised' = out.raised
    /\ UNCHANGED <<fmtVars, cfgVars, clientVars, loopVars, pc>>
    /\ UNCHANGED <<jira_fields, jira_issues, jira_epics, search_log>>
    /\ UNCHANGED <<anchor_date, custom_fields, custom_field_map, self_issue_map>>

NextEpic == CallGetEpicName

\* Any sequence of get_epic_name calls on one handler.
SpecEpic == InitEpic /\ [][NextEpic]_vars

(***************************************************************************)
(* ------------- execute through line 206, as a function ----------------- *)
(***************************************************************************)
\* jira_client.issue for the epic the issue links to, on a tracker that
\* answers each epic key one way and knows no other key.
AnswerFor(issue, field_map, epics) ==
    IF /\ DictHas(field_map, EpicLink)
       /\ EpicLinkValue(issue, DictGet(field_map, EpicLink)) \in DOMAIN epics
    THEN epics[EpicLinkValue(issue, DictGet(field_map, EpicLink))]
    ELSE [ok |-> FALSE, error |-> "HTTP 404", custom |-> <<>>]

\* The for loop of lines 107-135 over a page from i on; st is
\* [raised, issue_map, cache, past_anchor].
RECURSIVE IssueLoop(_, _, _, _, _)
IssueLoop(page, i, field_map, st, epics) ==
    IF i > Len(page) THEN st
    ELSE LET issue == page[i]
             issue_resolution_date == DateOf(issue.fields.resolutiondate)
             fixed == <<[k |-> "Title", v |-> issue.fields.summary],
                        [k |-> "Description", v |-> issue.fields.description],
                        [k |-> "Resolution Date", v |-> issue_resolution_date]>>
         IN  IF BeforeAnchor(issue_resolution_date, Today - WRAPPED_TIMELINE)
             THEN [st EXCEPT !.past_anchor = TRUE]
             ELSE LET r == CustomFieldLoop(issue, field_map, 1,
                               [raised |-> NoError, record |-> fixed, cache |-> st.cache,
                                fetched |-> <<>>, calls |-> <<>>],
                               AnswerFor(issue, field_map, epics))
                  IN  IF r.raised # NoError
                      THEN [st EXCEPT !.raised = r.raised, !.cache = r.cache]
                      ELSE IssueLoop(page, i + 1, field_map,
                               [st EXCEPT !.issue_map = DictSet(@, issue.key, r.record),
                                          !.cache = r.cache],
                               epics)

\* The while loop of lines 98-136 from start_index on.
RECURSIVE WhileLoop(_, _, _, _, _)
WhileLoop(results, start, field_map, st, epics) ==
    IF ~LoopAgain(st.past_anchor) \/ st.raised # NoError THEN st
    ELSE WhileLoop(results, NextStart(start, max_issues_pulled_at_a_time), field_map,
                   IssueLoop(SearchIssuesPage(results, start, max_issues_pulled_at_a_time),
                             1, field_map, st, epics),
                   epics)

\* Lines 199-206 of execute on a tracker whose listing and searches succeed:
\* the exception that left it, the field map, self.issue_map and the epic
\* cache after it.
Execute(fields, tracked, results, epics) ==
    LET map == FieldMapLoop(CustomFieldsOf(fields), 1, <<>>, tracked, FALSE)
    IN  IF ShortCount(map, tracked)
        THEN [raised |-> [type |-> "ValueError", key |-> "", cause |-> "custom fields not found"],
              field_map |-> None, issue_map |-> None, cache |-> <<>>]
        ELSE LET st == WhileLoop(results, 0, map,
                           [raised |-> NoError, issue_map |-> <<>>, cache |-> <<>>,
                            past_anchor |-> FALSE],
                           epics)
             IN  [raised |-> st.raised, field_map |-> Some(map),
                  issue_map |-> IF st.raised = NoError THEN Some(st.issue_map) ELSE None,
                  cache |-> st.cache]

\* execute up to the report, in one step (the request logs are not kept).
RunExecute ==
    /\ pc = "fields"
    /\ LET out == Execute(jira_fields, IMPORTANT_CUSTOM_FIELDS, jira_issues, jira_epics)
       IN  /\ custom_fields' = Some(CustomFieldsOf(jira_fields))
           /\ custom_field_map' = out.field_map
           /\ self_issue_map' = out.issue_map
           /\ existing_epic_map' = out.cache
           /\ raised' = out.raised
           /\ pc' = IF out.raised = NoError THEN "report" ELSE "aborted"
    /\ UNCHANGED <<fmtVars, cfgVars, clientVars, jiraVars, loopVars, anchor_date,
                   epic_calls, logged>>

\* Every order of a sequence.
Orders(s) == {[i \in 1..Len(s) |-> s[p[i]]] : p \in Permutations(1..Len(s))}

OrderTracked == <<EpicLink, EpicName, StoryPoints>>

\* A tracker with one custom field per tracked name, and one with a second
\* custom field named "Epic Link".
UniqueFields ==
    MkFields(<< <<EpicLink, TRUE>>, <<EpicName, TRUE>>, <<StoryPoints, TRUE>>,
                <<"Summary", FALSE>> >>)
DuplicateFields ==
    MkFields(<< <<EpicLink, TRUE>>, <<EpicName, TRUE>>, <<StoryPoints, TRUE>>,
                <<EpicLink, TRUE>> >>)

\* What an issue can hold in its custom fields: an epic key in a field named
\* "Epic Link" (EPIC-1 in the first such field of the tracker, EPIC-2 in
\* another), "3" in "Story Points", each of them or not.
CustomValues(fields) ==
    LET ids == {fields[i].id : i \in {j \in 1..Len(fields) :
                    fields[j].custom /\ fields[j].name \in {EpicLink, StoryPoints}}}
        nameOf(id) == fields[CHOOSE i \in 1..Len(fields) : fields[i].id = id].name
        first == CHOOSE id \in FieldIds(fields, EpicLink) :
                     \A other \in FieldIds(fields, EpicLink) : id <= other
    IN  {[id \in S |-> IF nameOf(id) = StoryPoints THEN "3"
                       ELSE IF id = first THEN "EPIC-1" ELSE "EPIC-2"] : S \in SUBSET ids}

OrderIssue(key, day, custom) ==
    [key |-> key,
     fields |-> [summary |-> "title", description |-> "text",
                 resolutiondate |-> <<day, 9>>, custom |-> custom]]

\* At most n issues resolved today followed by one resolved before the
\* anchor date.
OrderResults(n, fields) ==
    {[i \in 1..(Len(s) + 1) |->
         IF i <= Len(s) THEN OrderIssue(i, Today, s[i])
         ELSE OrderIssue(i, Today - WRAPPED_TIMELINE - 1, <<>>)] :
        s \in SeqsUpTo(CustomValues(fields), n)}

\* EPIC-1 answers in any way, EPIC-2 is an epic without a name.
OrderAnswers(fields) ==
    {[key \in EpicKeys |->
         IF key = "EPIC-1" THEN r ELSE [ok |-> TRUE, error |-> "", custom |-> <<>>]] :
        r \in FetchResponses(fields)}

InitOrder ==
    /\ FormatterIdle
    /\ Connected
    /\ handler_module = "jira_handler"
    /\ IMPORTANT_CUSTOM_FIELDS \in Orders(OrderTracked)
    /\ LIST_CUSTOM_FIELDS = FALSE
    /\ VERBOSE = FALSE
    /\ jira_fields \in Orders(UniqueFields) \cup Orders(DuplicateFields)
    /\ jira_issues \in OrderResults(MaxOrderIssues, jira_fields)
    /\ jira_epics \in OrderAnswers(jira_fields)
    /\ pc = "fields"
    /\ Constructed

NextOrder == RunExecute

\* execute under every order of the tracked names and of the tracker's
\* fields.
SpecOrder == InitOrder /\ [][NextOrder]_vars

(***************************************************************************)
(* ------------------------------ properties ----------------------------- *)
(***************************************************************************)
\* The page the tracker serves for a request at startAt.
PageAt(startAt) == SearchIssuesPage(jira_issues, startAt, max_issues_pulled_at_a_time)

IssueDay(i) == DateOf(jira_issues[i].fields.resolutiondate)

IsOld(i) == IssueDay(i) < anchor_date

\* The result set is ordered by resolution date, latest first.
SortedDescending ==
    \A i, j \in 1..Len(jira_issues) : i < j => IssueDay(i) >= IssueDay(j)

\* The position of the first issue resolved before the anchor date, or one
\* past the end of the result set.
FirstOld ==
    CHOOSE i \in 1..(Len(jira_issues) + 1) :
        /\ i <= Len(jira_issues) => IsOld(i)
        /\ \A j \in 1..(i - 1) : ~IsOld(j)

KeysOf(positions) == {jira_issues[i].key : i \in positions}

Min(a, b) == IF a < b THEN a ELSE b

(***************************************************************************)
(* C1: once a search call has returned an empty page, generate_issue_map   *)
(* requests no further page: every request but the last one of a run was   *)
(* answered with a non-empty page.                                         *)
(***************************************************************************)
C1_EmptyPageStops ==
    \A n \in 1..(Len(search_log) - 1) : PageAt(search_log[n]) # <<>>

(***************************************************************************)
(* C2: the records of generate_issue_map are those of the issues in front  *)
(* of the first issue resolved strictly before the anchor date, page by    *)
(* page: never a record for that issue or a later one, after each page a   *)
(* record for every earlier issue served so far, and on return a record    *)
(* for all of them; for a result set sorted by resolution date descending  *)
(* these are the issues resolved on or after the anchor date.              *)
(***************************************************************************)
C2_RecordsUpToAnchor ==
    /\ DictKeys(issue_map) \subseteq KeysOf(1..(FirstOld - 1))
    /\ pc = "while" =>
          DictKeys(issue_map) = KeysOf(1..Min(FirstOld - 1, start_index))
    /\ self_issue_map # None =>
          /\ DictKeys(self_issue_map[1]) = KeysOf(1..(FirstOld - 1))
          /\ SortedDescending =>
                DictKeys(self_issue_map[1]) =
                    KeysOf({i \in 1..Len(jira_issues) : IssueDay(i) >= anchor_date})

\* A sorted result set pulled over several pages up to an issue resolved on
\* the anchor date, which got its record, and an older one, which did not.
C2_Witness ==
    /\ pc = "done"
    /\ SortedDescending
    /\ Len(search_log) >= 2
    /\ FirstOld <= Len(jira_issues)
    /\ FirstOld > 1
    /\ IssueDay(FirstOld - 1) = anchor_date
    /\ DictHas(self_issue_map[1], jira_issues[FirstOld - 1].key)

(***************************************************************************)
(* C3: for every epic key, jira_client.issue succeeds at most once and,    *)
(* as long as no call has failed, is called at most once; every            *)
(* get_epic_name call for the key returns the same value; and the records  *)
(* of the issues linked to the key all carry that value as "Epic Name".    *)
(***************************************************************************)
FetchesOf(key) == {n \in 1..Len(fetch_log) : fetch_log[n].key = key}

LinkOf(issue, field_map) ==
    IF HasAttr(issue.fields.custom, DictGet(field_map, EpicLink))
    THEN issue.fields.custom[DictGet(field_map, EpicLink)]
    ELSE "None"

\* The items of the issue map that are complete records of issues linked
\* to the epic (the key of an issue is its position in the result set).
RecordsOf(key) ==
    {n \in 1..Len(issue_map) :
        /\ DictHas(issue_map[n].v, EpicName)
        /\ LinkOf(jira_issues[issue_map[n].k], custom_field_map[1]) = key}

C3_OneFetchPerEpic ==
    \A key \in EpicKeys :
        /\ Cardinality({n \in FetchesOf(key) : fetch_log[n].ok}) <= 1
        /\ (\A n \in 1..Len(epic_calls) : epic_calls[n].raised = NoError) =>
               Cardinality(FetchesOf(key)) <= 1
        /\ \A m, n \in 1..Len(epic_calls) :
               /\ epic_calls[m].ref = key /\ epic_calls[m].raised = NoError
               /\ epic_calls[n].ref = key /\ epic_calls[n].raised = NoError
               => epic_calls[m].value = epic_calls[n].value
        /\ \A n \in RecordsOf(key) :
               /\ DictHas(existing_epic_map, key)
               /\ DictGet(issue_map[n].v, EpicName) = DictGet(existing_epic_map, key)

\* Two issues of one epic have their records, both with the epic's name,
\* after a single fetch.
C3_Witness ==
    \E key \in EpicKeys :
        /\ Cardinality(RecordsOf(key)) >= 2
        /\ Cardinality(FetchesOf(key)) = 1
        /\ \A n \in RecordsOf(key) : DictGet(issue_map[n].v, EpicName) = "Alpha"

(***************************************************************************)
(* C4: a run whose field map has no "Epic Name" entry issues no search     *)
(* query and does not complete: it ends in a configuration error.          *)
(***************************************************************************)
C4_MissingEpicNameFailsEarly ==
    (custom_field_map # None /\ ~DictHas(custom_field_map[1], EpicName)) =>
        /\ search_log = <<>>
        /\ pc # "done"
        /\ pc = "aborted" => raised.type \in {"ValueError", "NotImplementedError"}

(***************************************************************************)
(* C5: a get_epic_name call whose fetch fails raises an error carrying the *)
(* epic key and the tracker's error, leaves the epic cache as it was, with *)
(* no entry for the key; and the next call for that key fetches again.     *)
(***************************************************************************)
LastCall(calls) == calls[Len(calls)]

CallsFor(calls, ref) == {n \in 1..Len(calls) : calls[n].ref = ref}

C5_FailedFetchLeavesCacheAlone ==
    [][Len(epic_calls') = Len(epic_calls) + 1 =>
          LET call == LastCall(epic_calls')
              earlier == CallsFor(epic_calls, call.ref)
          IN  /\ call.raised.type = "ValueError" =>
                    /\ fetch_log' = Append(fetch_log,
                           [key |-> call.ref, ok |-> FALSE, error |-> call.raised.cause])
                    /\ call.raised.key = call.ref
                    /\ call.raised.cause \in JiraErrors
                    /\ existing_epic_map' = existing_epic_map
                    /\ ~DictHas(existing_epic_map', call.ref)
              /\ (\E m \in earlier :
                     /\ \A n \in earlier : n <= m
                     /\ epic_calls[m].raised.type = "ValueError") =>
                    /\ call.fetched
                    /\ Len(fetch_log') = Len(fetch_log) + 1
                    /\ LastCall(fetch_log').key = call.ref]_vars

\* A call for an epic failed on the tracker and a later call for the same
\* epic fetched it and returned its name.
C5_Witness ==
    \E m, n \in 1..Len(epic_calls) :
        /\ m < n
        /\ epic_calls[m].ref = epic_calls[n].ref
        /\ epic_calls[m].raised.type = "ValueError"
        /\ epic_calls[m].raised.cause = "HTTP 503"
        /\ epic_calls[n].raised = NoError
        /\ epic_calls[n].fetched
        /\ epic_calls[n].value = "Alpha"

(***************************************************************************)
(* C6: when some tracked field name has no custom field of exactly that    *)
(* name in the tracker's field list, get_custom_field_map raises a         *)
(* configuration error and no map is stored; a map that is stored has an   *)
(* entry for every tracked name.                                           *)
(***************************************************************************)
HasCustomField(name) ==
    \E i \in 1..Len(jira_fields) : jira_fields[i].custom /\ jira_fields[i].name = name

SomeTrackedFieldMissing ==
    \E name \in SeqToSet(IMPORTANT_CUSTOM_FIELDS) : ~HasCustomField(name)

C6_NoPartialFieldMap ==
    /\ (SomeTrackedFieldMissing /\ custom_fields # None /\ pc # "field_map") =>
          /\ custom_field_map = None
          /\ pc = "aborted"
          /\ raised.type = "ValueError"
          /\ search_log = <<>>
    /\ custom_field_map # None =>
          \A name \in SeqToSet(IMPORTANT_CUSTOM_FIELDS) : DictHas(custom_field_map[1], name)

\* Two of three tracked fields exist in the tracker, the third does not:
\* the run is aborted with no field map.
C6_Witness ==
    /\ pc = "aborted"
    /\ raised.type = "ValueError"
    /\ custom_field_map = None
    /\ ~LIST_CUSTOM_FIELDS
    /\ Len(IMPORTANT_CUSTOM_FIELDS) = 3
    /\ Cardinality({name \in SeqToSet(IMPORTANT_CUSTOM_FIELDS) : HasCustomField(name)}) = 2

(***************************************************************************)
(* C7: a field map that get_custom_field_map returns has exactly the       *)
(* tracked names as keys, maps each name to the id of a custom field of    *)
(* that name, and exists only if the tracker lists exactly one custom      *)
(* field under each tracked name.                                          *)
(***************************************************************************)
CustomFieldsNamed(name) ==
    {i \in 1..Len(jira_fields) : jira_fields[i].custom /\ jira_fields[i].name = name}

C7_OneIdentifierPerName ==
    custom_field_map # None =>
        /\ DictKeys(custom_field_map[1]) = SeqToSet(IMPORTANT_CUSTOM_FIELDS)
        /\ \A name \in DictKeys(custom_field_map[1]) :
              /\ \E i \in CustomFieldsNamed(name) :
                    jira_fields[i].id = DictGet(custom_field_map[1], name)
              /\ Cardinality(CustomFieldsNamed(name)) = 1

(***************************************************************************)
(* C8: with "Epic Name" in the field map, a get_epic_name call with None,  *)
(* the empty string or the string "None" returns "N/A", makes no           *)
(* jira_client.issue call and leaves the epic cache unchanged.             *)
(***************************************************************************)
C8_NoEpicReference ==
    [][(/\ Len(epic_calls') = Len(epic_calls) + 1
        /\ LastCall(epic_calls').ref \in {NoneValue, "", "None"}
        /\ DictHas(custom_field_map[1], EpicName)) =>
          /\ LastCall(epic_calls').raised = NoError
          /\ LastCall(epic_calls').value = "N/A"
          /\ ~LastCall(epic_calls').fetched
          /\ fetch_log' = fetch_log
          /\ existing_epic_map' = existing_epic_map
          /\ \A ref \in {NoneValue, "", "None"} : ~DictHas(existing_epic_map', ref)]_vars

\* With an epic cached, calls with "None" and with None both returned "N/A".
C8_Witness ==
    /\ existing_epic_map # <<>>
    /\ \A ref \in {NoneValue, "None"} :
          \E n \in 1..Len(epic_calls) :
              /\ epic_calls[n].ref = ref
              /\ epic_calls[n].value = "N/A"
              /\ epic_calls[n].raised = NoError

(***************************************************************************)
(* C9: every line format emits is at most FILE_LOG_LINE_LENGTH long unless *)
(* it is one single word longer than that; no emitted line is empty; each  *)
(* line is its words joined by single spaces; and the words of the lines,  *)
(* read in order, are the whitespace-separated words of the message.       *)
(***************************************************************************)
C9_WordWrap ==
    fmt_pc = "formatted" =>
        LET lines == EmittedLines(wrapped_msg)
            L     == FILE_LOG_LINE_LENGTH
        IN  /\ \A i \in 1..Len(lines) :
                  /\ lines[i] # <<>>
                  /\ lines[i] = Join(Split(lines[i]), <<" ">>)
                  /\ \/ Len(lines[i]) <= L
                     \/ Len(Split(lines[i])) = 1 /\ Len(Split(lines[i])[1]) > L
            /\ Concat([i \in 1..Len(lines) |-> Split(lines[i])]) = Split(record_msg)

\* A message with a run of whitespace is wrapped over several lines, the
\* first of them a single word longer than the line length.
C9_Witness ==
    /\ fmt_pc = "formatted"
    /\ record_msg # Join(Split(record_msg), <<" ">>)
    /\ LET lines == EmittedLines(wrapped_msg)
       IN  /\ Len(lines) >= 2
           /\ Len(lines[1]) > FILE_LOG_LINE_LENGTH
           /\ FILE_LOG_LINE_LENGTH > 0

(***************************************************************************)
(* C10 as claimed: the names of the numbered epic list are pairwise        *)
(* distinct, the count reported with it is the number of distinct names,   *)
(* and "Issues Completed" is the number of issue records.                  *)
(***************************************************************************)
LoggedArgs(what) == logged[CHOOSE n \in 1..Len(logged) : logged[n].what = what].args

C10_DistinctEpicNames ==
    pc = "done" =>
        LET list == LoggedArgs("epic_list")
        IN  /\ \A m, n \in 1..Len(list) : m # n => list[m][2] # list[n][2]
            /\ LoggedArgs("epics_participated_in")[1] =
                  Cardinality({list[n][2] : n \in 1..Len(list)})
            /\ LoggedArgs("issues_completed")[1] = Len(self_issue_map[1])

(***************************************************************************)
(* C10 as amended: the numbered epic list has one entry per epic key of    *)
(* the epic cache, numbered from 1 in the order the epics were cached and  *)
(* showing the cached name, so that two epics of the same name (or both    *)
(* without one, "N/A") are listed twice; the count reported with it is the *)
(* number of cached epic keys; "Issues Completed" is the number of issue   *)
(* records.                                                                *)
(***************************************************************************)
C10_OneEntryPerEpicKey ==
    pc = "done" =>
        LET list == LoggedArgs("epic_list")
        IN  /\ Len(list) = Cardinality(DictKeys(existing_epic_map))
            /\ \A n \in 1..Len(list) : list[n] = <<n, existing_epic_map[n].v>>
            /\ \A m, n \in 1..Len(list) :
                  m # n => existing_epic_map[m].k # existing_epic_map[n].k
            /\ LoggedArgs("epics_participated_in")[1] = Cardinality(DictKeys(existing_epic_map))
            /\ LoggedArgs("issues_completed")[1] = Len(self_issue_map[1])
            /\ Len(self_issue_map[1]) = Cardinality(DictKeys(self_issue_map[1]))

\* A finished run that listed two epics under the same name.
C10_Witness ==
    /\ pc = "done"
    /\ Len(LoggedArgs("epic_list")) = 2
    /\ LoggedArgs("epic_list")[1][2] = LoggedArgs("epic_list")[2][2]
    /\ LoggedArgs("issues_completed")[1] = 2

(***************************************************************************)
(* C11: with LIST_CUSTOM_FIELDS on, get_custom_field_map logs the id and   *)
(* name of every custom field of the tracker, in order, puts nothing into  *)
(* the field map, and the run ends there: it never issues a search or an   *)
(* epic fetch and never reaches the report.                                *)
(***************************************************************************)
C11_ListModeStops ==
    (LIST_CUSTOM_FIELDS /\ custom_fields # None /\ pc # "field_map") =>
        /\ SelectSeq(logged, LAMBDA l : l.what = "custom_field") =
              [i \in 1..Len(custom_fields[1]) |->
                  Log("custom_field", <<custom_fields[1][i].id, custom_fields[1][i].name>>)]
        /\ \A i \in 1..Len(custom_fields[1]) : custom_fields[1][i].custom
        /\ Len(custom_fields[1]) = Cardinality({i \in 1..Len(jira_fields) : jira_fields[i].custom})
        /\ custom_field_map # None => custom_field_map[1] = <<>>
        /\ search_log = <<>>
        /\ fetch_log = <<>>
        /\ pc \notin {"while", "for", "report", "done"}

(***************************************************************************)
(* C12: a JIRAError of jira_client.fields() or of search_issues ends the   *)
(* run on the spot: the step that raises it leaves execute aborted with    *)
(* no issue map stored and nothing reported, and no step follows it, so    *)
(* the call is not repeated and no other tracker call is made.             *)
(***************************************************************************)
Reported == \E n \in 1..Len(logged) : logged[n].what \in {"issues_completed", "thats_a_wrap"}

C12_TrackerFailurePropagates ==
    [][/\ raised.type # "JIRAError"
       /\ raised'.type = "JIRAError" =>
             /\ pc' = "aborted"
             /\ self_issue_map' = None
             /\ ~Reported'
             /\ Len(search_log') + Len(fetch_log') <= Len(search_log) + Len(fetch_log) + 1
             /\ existing_epic_map' = existing_epic_map]_vars

\* The request for the second page failed after the first page had been
\* processed and its epic fetched.
C12_Witness ==
    /\ raised.type = "JIRAError"
    /\ pc = "aborted"
    /\ search_log = <<0, max_issues_pulled_at_a_time>>
    /\ existing_epic_map # <<>>
    /\ Len(issue_map) = max_issues_pulled_at_a_time

(***************************************************************************)
(* C14: once generate_issue_map has met an issue resolved before the       *)
(* anchor date, the requests it has made are those up to the page holding  *)
(* the first such issue, and it makes no other; with three issues resolved *)
(* today, yesterday and ten days ago and a window of five days it returns  *)
(* two records after one request.                                          *)
(***************************************************************************)
DaysOf(results) == [i \in 1..Len(results) |-> DateOf(results[i].fields.resolutiondate)]

C14_NoSearchPastAnchor ==
    /\ past_anchor =>
          /\ FirstOld <= Len(jira_issues)
          /\ Len(search_log) = ((FirstOld - 1) \div max_issues_pulled_at_a_time) + 1
          /\ LastCall(search_log) + Len(issues) >= FirstOld
    /\ (self_issue_map # None /\ DaysOf(jira_issues) = <<Today, Today - 1, Today - 10>>) =>
          /\ anchor_date = Today - 5
          /\ DictKeys(self_issue_map[1]) = {1, 2}
          /\ search_log = <<0>>

\* A run met the first old issue on its second page and ended without
\* asking for the third page the tracker holds.
C14_Witness ==
    /\ pc = "done"
    /\ search_log = <<0, max_issues_pulled_at_a_time>>
    /\ Len(jira_issues) > 2 * max_issues_pulled_at_a_time

(***************************************************************************)
(* C15: the n-th search request of a run starts at 50 * (n - 1), so the    *)
(* offsets are 0, 50, 100, ... with none repeated or skipped; and the      *)
(* issues are processed in the order served: the records made so far are   *)
(* those of the first issues of the result set, in that order, the next    *)
(* one to process being the one right after them.                          *)
(***************************************************************************)
C15_PagesInOrder ==
    /\ \A n \in 1..Len(search_log) : search_log[n] = max_issues_pulled_at_a_time * (n - 1)
    /\ start_index \in {max_issues_pulled_at_a_time * Len(search_log),
                         max_issues_pulled_at_a_time * (Len(search_log) - 1)}
    /\ Len(issue_map) <= Len(jira_issues)
    /\ \A n \in 1..Len(issue_map) : issue_map[n].k = jira_issues[n].key
    /\ (pc = "for" /\ issue_pos <= Len(issues)) =>
          /\ issues[issue_pos] = jira_issues[start_index + issue_pos]
          /\ Len(issue_map) = start_index + issue_pos - 1

\* Three pages were requested and the third one is being processed.
C15_Witness ==
    /\ search_log = <<0, max_issues_pulled_at_a_time, 2 * max_issues_pulled_at_a_time>>
    /\ pc = "for"
    /\ issue_pos = 2
    /\ Len(issue_map) = 2 * max_issues_pulled_at_a_time + 1

(***************************************************************************)
(* C16: every record generate_issue_map returns has the keys Title,        *)
(* Description and Resolution Date and one key per tracked field name and  *)
(* no other; a tracked field other than "Epic Name" holds the issue's      *)
(* value of that field, or "N/A" when the issue has none; "Epic Name"      *)
(* holds "N/A" when the issue's "Epic Link" is absent or "None", for which *)
(* nothing is ever fetched, and the cached name of the linked epic         *)
(* otherwise.                                                              *)
(***************************************************************************)
FixedKeys == {"Title", "Description", "Resolution Date"}

\* The issue of the result set a record was made for (the key of an issue
\* is its position in the result set).
IssueOf(item) == jira_issues[item.k]

C16_RecordShape ==
    /\ \A n \in 1..Len(fetch_log) : fetch_log[n].key \in EpicKeys
    /\ self_issue_map # None =>
          \A n \in 1..Len(self_issue_map[1]) :
              LET record == self_issue_map[1][n].v
                  custom == IssueOf(self_issue_map[1][n]).fields.custom
                  link   == LinkOf(IssueOf(self_issue_map[1][n]), custom_field_map[1])
              IN  /\ DictKeys(record) = FixedKeys \cup SeqToSet(IMPORTANT_CUSTOM_FIELDS)
                  /\ Len(record) = Cardinality(DictKeys(record))
                  /\ \A name \in SeqToSet(IMPORTANT_CUSTOM_FIELDS) \ {EpicName} :
                        DictGet(record, name) =
                            IF DictGet(custom_field_map[1], name) \in DOMAIN custom
                            THEN custom[DictGet(custom_field_map[1], name)]
                            ELSE "N/A"
                  /\ EpicName \in SeqToSet(IMPORTANT_CUSTOM_FIELDS) =>
                        DictGet(record, EpicName) =
                            IF link = "None" THEN "N/A" ELSE DictGet(existing_epic_map, link)

\* A run returned the record of an issue without an Epic Link and without
\* Dev Days, both "N/A", next to one with Story Points and a named epic.
C16_Witness ==
    /\ self_issue_map # None
    /\ \E m, n \in 1..Len(self_issue_map[1]) :
          /\ IssueOf(self_issue_map[1][m]).fields.custom = <<>>
          /\ DictGet(self_issue_map[1][m].v, EpicName) = "N/A"
          /\ DictGet(self_issue_map[1][m].v, DevDays) = "N/A"
          /\ DictGet(self_issue_map[1][m].v, StoryPoints) = "N/A"
          /\ DictGet(self_issue_map[1][n].v, EpicName) = "Alpha"
          /\ DictGet(self_issue_map[1][n].v, StoryPoints) = "3"

(***************************************************************************)
(* C17: when generate_issue_map has returned with "Epic Name" tracked, the *)
(* keys of the epic cache are the "Epic Link" values, other than empty and *)
(* "None", of the issues that got a record, and nothing else was ever      *)
(* fetched: no epic of an issue left out is fetched or cached.             *)
(***************************************************************************)
EpicsTouched ==
    {LinkOf(IssueOf(self_issue_map[1][n]), custom_field_map[1]) : n \in 1..Len(self_issue_map[1])}
        \ {"None", "", NoneValue}

C17_CacheHoldsEpicsTouched ==
    (self_issue_map # None /\ DictHas(custom_field_map[1], EpicName)) =>
        /\ DictKeys(existing_epic_map) = EpicsTouched
        /\ {fetch_log[n].key : n \in 1..Len(fetch_log)} = EpicsTouched

\* A run returned two records linked to one epic, which is cached, and
\* left out an issue linked to another epic, which is not.
C17_Witness ==
    /\ self_issue_map # None
    /\ DictKeys(existing_epic_map) = {"EPIC-1"}
    /\ Len(self_issue_map[1]) >= 2
    /\ \E i \in 1..Len(jira_issues) : LinkOf(jira_issues[i], custom_field_map[1]) = "EPIC-2"

(***************************************************************************)
(* C18: the epic cache is empty when the handler is constructed, and no    *)
(* get_epic_name call, whether it returns or raises, removes an entry or   *)
(* changes the value of one: every entry stays where it is, as it is.      *)
(***************************************************************************)
C18_CacheOnlyGrows ==
    /\ existing_epic_map = <<>>
    /\ [][/\ Len(existing_epic_map') >= Len(existing_epic_map)
          /\ \A i \in 1..Len(existing_epic_map) :
                existing_epic_map'[i] = existing_epic_map[i]
          /\ \A key \in DictKeys(existing_epic_map) :
                DictGet(existing_epic_map', key) = DictGet(existing_epic_map, key)]_vars

\* Two epics are cached, the second after a call for it had failed.
C18_Witness ==
    /\ Len(existing_epic_map) = 2
    /\ Len(epic_calls) = 3
    /\ epic_calls[2].raised.type = "ValueError"
    /\ epic_calls[2].ref = existing_epic_map[2].k

(***************************************************************************)
(* C19: in main.py, a get_epic_name call whose fetch fails prints the      *)
(* error and returns without raising, leaving the cache without an entry   *)
(* for the key, and generate_issue_map moves on to the next issue.         *)
(***************************************************************************)
C19_FailedFetchContinues ==
    [][(Len(fetch_log') = Len(fetch_log) + 1 /\ ~LastCall(fetch_log').ok) =>
          /\ LastCall(logged') = Log("error_fetch_epic",
                                     <<LastCall(fetch_log').key, LastCall(fetch_log').error>>)
          /\ ~DictHas(existing_epic_map', LastCall(fetch_log').key)
          /\ LastCall(epic_calls').raised = NoError
          /\ raised' = NoError
          /\ pc' = "for"
          /\ issue_pos' = issue_pos + 1]_vars

(***************************************************************************)
(* C13: when JIRA_TOKEN is unset or empty, JiraHandler() raises a          *)
(* ValueError and makes no tracker call of any kind: no connection, no     *)
(* field listing, no search, no issue fetch; and no handler exists.        *)
(***************************************************************************)
C13_NoTokenNoTrackerCall ==
    (Falsy(JIRA_TOKEN) /\ pc # "new") =>
        /\ pc = "aborted"
        /\ raised.type = "ValueError"
        /\ connect_log = <<>>
        /\ jira_client = None
        /\ custom_fields = None
        /\ search_log = <<>>
        /\ fetch_log = <<>>

\* The handler was asked for with an empty token and the constructor raised
\* after logging where to get one.
C13_Witness ==
    /\ JIRA_TOKEN = ""
    /\ pc = "aborted"
    /\ raised.type = "ValueError"
    /\ logged = <<Log("error_no_token", <<>>)>>

(***************************************************************************)
(* C20: when generate_issue_map is left by an error, of a search or of an  *)
(* epic fetch, self.issue_map is still None and nothing has been reported, *)
(* whatever the loop had gathered; and the epic cache holds one entry per  *)
(* fetch that succeeded, in the order of the fetches, and none for a fetch *)
(* that failed.                                                            *)
(***************************************************************************)
IsOk(fetch) == fetch.ok

C20_NoPartialIssueMap ==
    (pc = "aborted" /\ custom_field_map # None) =>
        /\ self_issue_map = None
        /\ ~Reported
        /\ \A n \in 1..Len(logged) : logged[n].what \notin {"issue_key", "epic_list"}
        /\ [i \in 1..Len(existing_epic_map) |-> existing_epic_map[i].k] =
              [i \in 1..Len(SelectSeq(fetch_log, IsOk)) |-> SelectSeq(fetch_log, IsOk)[i].key]
        /\ \A n \in 1..Len(fetch_log) :
              (~fetch_log[n].ok /\ \A m \in 1..Len(fetch_log) :
                                      fetch_log[m].key = fetch_log[n].key => ~fetch_log[m].ok)
              => ~DictHas(existing_epic_map, fetch_log[n].key)

\* The fetch of the second issue's epic failed after the first issue had
\* its record and its epic cached.
C20_Witness ==
    /\ pc = "aborted"
    /\ raised.type = "ValueError"
    /\ raised.key = "EPIC-2"
    /\ Len(issue_map) = 2
    /\ DictKeys(existing_epic_map) = {"EPIC-1"}
    /\ self_issue_map = None

(***************************************************************************)
(* C21: whatever the order of the tracked names and of the tracker's       *)
(* fields, execute ends the same way, with the same records under the same *)
(* issue keys and the same names under the same epic keys in the cache, as *)
(* it does with the tracked names as config.py orders them and the fields  *)
(* in the order of their ids.                                              *)
(***************************************************************************)
\* A dict as the mapping it is, whatever the order of its items.
AsMapping(d) == [key \in DictKeys(d) |-> DictGet(d, key)]

RecordsAsMapping(optional) ==
    IF optional = None THEN None
    ELSE [key \in DictKeys(optional[1]) |-> AsMapping(DictGet(optional[1], key))]

\* The fields in the order of their ids.
ById(fields) ==
    [i \in 1..Len(fields) |-> fields[CHOOSE j \in 1..Len(fields) : fields[j].id = i]]

C21_OrderIndependent ==
    pc \in {"report", "aborted"} =>
        LET ref == Execute(ById(jira_fields), OrderTracked, jira_issues, jira_epics)
        IN  /\ raised = ref.raised
            /\ RecordsAsMapping(self_issue_map) = RecordsAsMapping(ref.issue_map)
            /\ AsMapping(existing_epic_map) = AsMapping(ref.cache)

=============================================================================
